---------------------------- MODULE Spec2Model ----------------------------
(***************************************************************************)
(* k6-script-validator: the static analysis pipeline.                      *)
(*                                                                         *)
(*   validateScript (routes/validation.ts)  the orchestrator               *)
(*   ImportAnalyzer.analyzeScript           imports and exported function  *)
(*   SecurityAnalyzer.analyzeScript         regex scans, four categories   *)
(*   ResourceAnalyzer.analyzeScript         size ceiling and vus ceiling   *)
(*                                                                         *)
(* A script is a sequence of source items in document order.  Its text is  *)
(* the concatenation of the items' texts; the parser (ts-morph) sees the   *)
(* items' syntactic roles, the regular expressions see the items' texts.   *)
(* The compiled patterns are process-wide objects with a lastIndex each    *)
(* (all carry the g flag); everything else lives for one call.             *)
(***************************************************************************)
EXTENDS Integers, Sequences, FiniteSets, TLC

(***************************************************************************)
(* Bounds of the model.                                                    *)
(***************************************************************************)
\* calls made one after the other in one process
MaxCalls == 3
\* code fragments in the body of a generated script
MaxChunks == 3
\* import declarations of a generated script
MaxImports == 2
\* property assignments of a generated script
MaxProps == 2

(***************************************************************************)
(* Configuration (config/default.ts).                                      *)
(***************************************************************************)
\* a ResourceAnalyzer ceiling one character below the orchestrator's
maxScriptSize_OneLess == 50 * 1024 - 1

maxScriptSize == 50 * 1024
maxVUs == 500
maxFileSize == 50 * 1024

(***************************************************************************)
(* Pattern registry (constants/security-patterns.ts, constants/k6-modules) *)
(***************************************************************************)
DANGEROUS_FUNCTIONS == "dangerous_functions"
XSS_PATTERNS == "xss_patterns"
SQL_INJECTION == "sql_injection"
CODE_OBFUSCATION == "code_obfuscation"

\* The categories in the order analyzeScript checks them.
SecurityPatternType ==
  <<DANGEROUS_FUNCTIONS, XSS_PATTERNS, SQL_INJECTION, CODE_OBFUSCATION>>

\* Each category's ordered list of patterns.  A pattern is named here by what
\* it looks for; every one is compiled with the flags g and i:
\*   evalCall          \beval\s*\(
\*   newFunction       \bnew\s+Function\s*\(
\*   globalFunction    \b(?:window\.|globalThis\.)Function\s*\(
\*   bracketFunction   \b(?:this|self)\[[quote]Function[quote]\]
\*   scriptTag         <script[^>]*>.*?<\/script>          (flags gis)
\*   javascriptUri     javascript\s*:
\*   eventHandler      \bon(click|load|error|focus|blur)\s*=
\*   unionSelect       \bUNION\s+SELECT\b
\*   selectFrom        \bSELECT\s+[\w*,\s]{1,30}\s+FROM\b
\*   dmlStatement      \b(DROP|DELETE|INSERT|UPDATE)\s+(TABLE|FROM|INTO|SET)\b
\*   hexEscape         \\x[0-9a-f]{2}
\*   unicodeEscape     \\u[0-9a-f]{4}
\*   fromCharCode      String\.fromCharCode
SECURITY_PATTERNS(type) ==
  CASE type = DANGEROUS_FUNCTIONS ->
         << "evalCall", "newFunction", "globalFunction", "bracketFunction" >>
    [] type = XSS_PATTERNS ->
         << "scriptTag", "javascriptUri", "eventHandler" >>
    [] type = SQL_INJECTION ->
         << "unionSelect", "selectFrom", "dmlStatement" >>
    [] type = CODE_OBFUSCATION ->
         << "hexEscape", "unicodeEscape", "fromCharCode" >>

AllPatterns ==
  UNION { { SECURITY_PATTERNS(SecurityPatternType[c])[i] :
              i \in 1..Len(SECURITY_PATTERNS(SecurityPatternType[c])) } :
          c \in 1..Len(SecurityPatternType) }

\* the table the static initializer of SecurityAnalyzer builds: one compiled
\* pattern for every pattern of every category, in the registry's order
CompiledAtInitialization ==
  [type \in { SecurityPatternType[c] : c \in 1..Len(SecurityPatternType) } |->
     SECURITY_PATTERNS(type)]

\* what require('re2') does in the environment the module is loaded in: the
\* native addon loads, or it is not built for this Node version and the
\* require throws
Re2Addon == {"loads", "throws"}

\* security-analyzer.ts lines 8-16: the constructor the patterns are compiled
\* with is RE2 when the addon loads, else the built-in RegExp
LoadRE2Ctor(re2) == IF re2 = "loads" THEN "RE2" ELSE "RegExp"

FORBIDDEN_MODULES ==
  { "child_process", "fs", "os", "path", "vm", "cluster",
    "net", "dgram", "tls", "dns", "crypto",
    "zlib", "util", "events", "stream", "buffer" }

K6_PROTOCOL_MODULES == { "k6/http", "k6/ws", "k6/net/grpc" }


(***************************************************************************)
(* Module specifiers.  A specifier is the sequence of its segments between *)
(* slashes: 'k6/http' is <<"k6", "http">>, './local.js' is                 *)
(* <<".", "local.js">>, so startsWith(p + '/') is a test of the first      *)
(* segment of a specifier that has more than one.                          *)
(***************************************************************************)
RECURSIVE JoinSlash(_)
JoinSlash(segs) ==
  IF segs = <<>> THEN ""
  ELSE IF Len(segs) = 1 THEN segs[1]
  ELSE segs[1] \o "/" \o JoinSlash(Tail(segs))

\* moduleName === 'k6' || moduleName.startsWith('k6/')
isK6Module(moduleName) ==
  \/ moduleName = <<"k6">>
  \/ Len(moduleName) > 1 /\ moduleName[1] = "k6"

\* K6_PROTOCOL_MODULES.includes(moduleName)
isProtocolModule(moduleName) == JoinSlash(moduleName) \in K6_PROTOCOL_MODULES

\* importPath.startsWith('./') || importPath.startsWith('../')
isRelativeImport(importPath) ==
  Len(importPath) > 1 /\ importPath[1] \in {".", ".."}

isAllowedImport(importPath) ==
  isK6Module(importPath) \/ isRelativeImport(importPath)

\* FORBIDDEN_MODULES.includes(moduleName)
isForbiddenModule(moduleName) == JoinSlash(moduleName) \in FORBIDDEN_MODULES

(***************************************************************************)
(* Source items.  Value texts of properties are sequences of characters,   *)
(* so that parseInt reads them character by character.                     *)
(***************************************************************************)
RECURSIVE Str(_)
Str(chars) == IF chars = <<>> THEN "" ELSE Head(chars) \o Str(Tail(chars))

\* expression.getKind(): the SyntaxKind number of an export assignment's
\* expression
getKind(expression) ==
  CASE expression = "ParenthesizedExpression" -> 217
    [] expression = "FunctionExpression" -> 218
    [] expression = "ArrowFunction" -> 219
    [] OTHER -> 80

ImportDeclaration(spec) ==
  [kind |-> "ImportDeclaration", spec |-> spec,
   text |-> "import m from '" \o JoinSlash(spec) \o "';"]

\* modifiers: "export default", "export" or "" (a plain declaration)
FunctionDeclaration(modifiers) ==
  [kind |-> "FunctionDeclaration", exported |-> (modifiers # ""),
   text |-> IF modifiers = "" THEN "function f() { }"
            ELSE modifiers \o " function f() { }"]

\* export default <expression>; or export = <expression>;  The parser makes
\* `export default function` a function declaration, and keeps the parentheses
\* of a parenthesized expression as a node, so a function expression stands
\* directly under an export assignment only in the second form.
ExportAssignment(expression) ==
  [kind |-> "ExportAssignment", expression |-> expression,
   text |-> CASE expression = "FunctionExpression" -> "export = function () { };"
              [] expression = "ParenthesizedExpression" ->
                   "export default (function () { });"
              [] expression = "ArrowFunction" -> "export default () => { };"
              [] OTHER -> "export default f;"]

\* name: value inside an object literal; name is the text of the name node
PropertyAssignment(name, value) ==
  [kind |-> "PropertyAssignment", name |-> name, value |-> value,
   text |-> "export const options = { " \o name \o ": " \o Str(value) \o " };"]

\* any other statement, seen by the parser as an expression statement
Code(text) == [kind |-> "Code", text |-> text]

\* a comment of n characters, none of which any pattern matches
Filler(n) == [kind |-> "Filler", n |-> n]

ItemLength(item) == IF item.kind = "Filler" THEN item.n ELSE Len(item.text)

RECURSIVE TextLength(_)
TextLength(items) ==
  IF items = <<>> THEN 0 ELSE ItemLength(Head(items)) + TextLength(Tail(items))

\* script.length
ScriptLength(script) == TextLength(script.items)

\* the offset in the script text at which item i starts
Offset(script, i) == TextLength(SubSeq(script.items, 1, i - 1))

(***************************************************************************)
(* The parser.  project.createSourceFile either raises (script.hazard =    *)
(* "parse": an input the parser gives up on) or returns the tree; the      *)
(* tree's queries are the selections below.  getDescendantsOfKind raises   *)
(* on a tree too deep to walk (script.hazard = "walk").                    *)
(***************************************************************************)
ParseErrorMessage == "Maximum call stack size exceeded"

createSourceFileThrows(script) == script.hazard = "parse"

getDescendantsThrows(script) == script.hazard = "walk"

RECURSIVE SelectKind(_, _)
SelectKind(items, kind) ==
  IF items = <<>> THEN <<>>
  ELSE IF Head(items).kind = kind
       THEN <<Head(items)>> \o SelectKind(Tail(items), kind)
       ELSE SelectKind(Tail(items), kind)

getImportDeclarations(script) == SelectKind(script.items, "ImportDeclaration")

getExportAssignments(script) == SelectKind(script.items, "ExportAssignment")

getFunctions(script) == SelectKind(script.items, "FunctionDeclaration")

\* getDescendantsOfKind(SyntaxKind.PropertyAssignment), in document order
getPropertyAssignments(script) == SelectKind(script.items, "PropertyAssignment")


(***************************************************************************)
(* Regular expressions.  Lexicon lists, for the code fragments the model   *)
(* uses, every match a pattern has in the fragment's text: the offset in   *)
(* the fragment and the matched substring.  A pattern has no other match   *)
(* in any item.                                                            *)
(***************************************************************************)
Hit(pattern, text, at, match) ==
  [pattern |-> pattern, text |-> text, at |-> at, match |-> match]

Lexicon ==
  { Hit("evalCall", "eval('test1');", 0, "eval("),
    Hit("evalCall", "eval('test2');", 0, "eval("),
    Hit("evalCall", "eval ('test3');", 0, "eval ("),
    Hit("evalCall", "EVAL(x);", 0, "EVAL("),
    Hit("newFunction", "const fn = new Function('return 1');", 11, "new Function("),
    Hit("globalFunction", "globalThis.Function('x')();", 0, "globalThis.Function("),
    Hit("bracketFunction", "this['Function']('return 42');", 0, "this['Function']"),
    Hit("scriptTag", "document.write('<script>alert(1)</script>');", 16,
        "<script>alert(1)</script>"),
    Hit("javascriptUri", "const u = 'javascript:void(0)';", 11, "javascript:"),
    Hit("eventHandler", "el.innerHTML = '<a onclick=go()>';", 19, "onclick="),
    Hit("eventHandler", "el.onload = go;", 3, "onload ="),
    Hit("unionSelect", "const q = 'a UNION SELECT b FROM t';", 13, "UNION SELECT"),
    Hit("selectFrom", "const q = 'a UNION SELECT b FROM t';", 19, "SELECT b FROM"),
    Hit("selectFrom", "const r = 'select a from t';", 11, "select a from"),
    Hit("dmlStatement", "const d = 'DROP TABLE users';", 11, "DROP TABLE"),
    Hit("hexEscape", "const s = '\\x41';", 11, "\\x41"),
    Hit("hexEscape", "const t = '\\x4a\\x41';", 11, "\\x4a"),
    Hit("hexEscape", "const t = '\\x4a\\x41';", 15, "\\x41"),
    Hit("unicodeEscape", "const w = '\\u0041';", 11, "\\u0041"),
    Hit("fromCharCode", "String.fromCharCode(104);", 0, "String.fromCharCode") }

\* the entries of the lexicon, by pattern
HitsOf == [p \in AllPatterns |-> { g \in Lexicon : g.pattern = p }]

\* every match of the pattern in the script text: [start, match]
MatchesIn(pattern, script) ==
  { [start |-> Offset(script, i) + h.at, match |-> h.match] :
      <<i, h>> \in { <<j, g>> \in (1..Len(script.items)) \X HitsOf[pattern] :
                       /\ script.items[j].kind # "Filler"
                       /\ g.text = script.items[j].text } }

\* RegExp.prototype.exec of a pattern with the g flag: the leftmost match that
\* starts at or after lastIndex, and the pattern's lastIndex afterwards
\* (the end of the match, or 0 when there is none)
exec(pattern, script, lastIdx) ==
  LET from == { m \in MatchesIn(pattern, script) : m.start >= lastIdx }
  IN  IF from = {} THEN [found |-> FALSE, match |-> "", lastIndex |-> 0]
      ELSE LET m == CHOOSE x \in from : \A y \in from : x.start <= y.start
           IN  [found |-> TRUE, match |-> m.match,
                lastIndex |-> m.start + Len(m.match)]

(***************************************************************************)
(* parseInt(text, 10): skip leading white space, take a sign, then the     *)
(* longest run of decimal digits; NaN when that run is empty.              *)
(***************************************************************************)
Digits == {"0", "1", "2", "3", "4", "5", "6", "7", "8", "9"}

DigitValue(c) ==
  CASE c = "0" -> 0 [] c = "1" -> 1 [] c = "2" -> 2 [] c = "3" -> 3
    [] c = "4" -> 4 [] c = "5" -> 5 [] c = "6" -> 6 [] c = "7" -> 7
    [] c = "8" -> 8 [] c = "9" -> 9

RECURSIVE SkipSpace(_)
SkipSpace(chars) ==
  IF chars # <<>> /\ Head(chars) = " " THEN SkipSpace(Tail(chars)) ELSE chars

\* the value of the longest run of digits chars starts with, read after acc
RECURSIVE ReadDigits(_, _)
ReadDigits(chars, acc) ==
  IF chars # <<>> /\ Head(chars) \in Digits
  THEN ReadDigits(Tail(chars), 10 * acc + DigitValue(Head(chars)))
  ELSE acc

parseInt(text) ==
  LET t == SkipSpace(text)
      signed == t # <<>> /\ Head(t) \in {"+", "-"}
      body == IF signed THEN Tail(t) ELSE t
      magnitude == ReadDigits(body, 0)
  IN  IF body = <<>> \/ Head(body) \notin Digits
      THEN [isNaN |-> TRUE, value |-> 0]
      ELSE [isNaN |-> FALSE,
            value |-> IF signed /\ Head(t) = "-" THEN 0 - magnitude ELSE magnitude]


(***************************************************************************)
(* ValidationResponseBuilder (utils/response-builders.ts).                 *)
(***************************************************************************)
success ==
  [valid |-> TRUE, errors |-> <<>>, warnings |-> <<>>,
   message |-> "Script validation passed"]

error(errs, message) ==
  [valid |-> FALSE, errors |-> errs, warnings |-> <<>>, message |-> message]

(***************************************************************************)
(* ImportAnalyzer (utils/import-analyzer.ts).                              *)
(***************************************************************************)
NewScriptAnalysisResult ==
  [valid |-> TRUE, errors |-> <<>>, hasK6Imports |-> FALSE,
   hasProtocolImports |-> FALSE, hasExportedFunction |-> FALSE]

\* ClassifyImport whose unknown-import branch leaves result.valid alone.
ClassifyImport_ForgetsInvalid(result, moduleSpecifier) ==
  IF isAllowedImport(moduleSpecifier)
  THEN [result EXCEPT !.hasK6Imports = TRUE,
                      !.hasProtocolImports =
                          @ \/ isProtocolModule(moduleSpecifier)]
  ELSE IF isForbiddenModule(moduleSpecifier)
  THEN [result EXCEPT
          !.errors = Append(@, "Forbidden Node.js module: "
                                 \o JoinSlash(moduleSpecifier)),
          !.valid = FALSE]
  ELSE [result EXCEPT
          !.errors = Append(@, "Unknown/disallowed import: "
                                 \o JoinSlash(moduleSpecifier))]

\* ClassifyImport that takes every allowed import for a protocol module.
ClassifyImport_AllowedIsProtocol(result, moduleSpecifier) ==
  IF isAllowedImport(moduleSpecifier)
  THEN [result EXCEPT !.hasK6Imports = TRUE, !.hasProtocolImports = TRUE]
  ELSE IF isForbiddenModule(moduleSpecifier)
  THEN [result EXCEPT
          !.errors = Append(@, "Forbidden Node.js module: "
                                 \o JoinSlash(moduleSpecifier)),
          !.valid = FALSE]
  ELSE [result EXCEPT
          !.errors = Append(@, "Unknown/disallowed import: "
                                 \o JoinSlash(moduleSpecifier)),
          !.valid = FALSE]

\* ClassifyImport that tests for a protocol module first and sets the protocol
\* flag alone.
ClassifyImport_ProtocolAlone(result, moduleSpecifier) ==
  IF isProtocolModule(moduleSpecifier)
  THEN [result EXCEPT !.hasProtocolImports = TRUE]
  ELSE IF isAllowedImport(moduleSpecifier)
  THEN [result EXCEPT !.hasK6Imports = TRUE]
  ELSE IF isForbiddenModule(moduleSpecifier)
  THEN [result EXCEPT
          !.errors = Append(@, "Forbidden Node.js module: "
                                 \o JoinSlash(moduleSpecifier)),
          !.valid = FALSE]
  ELSE [result EXCEPT
          !.errors = Append(@, "Unknown/disallowed import: "
                                 \o JoinSlash(moduleSpecifier)),
          !.valid = FALSE]

\* the body of the loop over the import declarations, for one declaration
ClassifyImport(result, moduleSpecifier) ==
  IF isAllowedImport(moduleSpecifier)
  THEN [result EXCEPT !.hasK6Imports = TRUE,
                      !.hasProtocolImports =
                          @ \/ isProtocolModule(moduleSpecifier)]
  ELSE IF isForbiddenModule(moduleSpecifier)
  THEN [result EXCEPT
          !.errors = Append(@, "Forbidden Node.js module: "
                                 \o JoinSlash(moduleSpecifier)),
          !.valid = FALSE]
  ELSE [result EXCEPT
          !.errors = Append(@, "Unknown/disallowed import: "
                                 \o JoinSlash(moduleSpecifier)),
          !.valid = FALSE]

RECURSIVE AnalyzeImports(_, _)
AnalyzeImports(importDeclarations, result) ==
  IF importDeclarations = <<>> THEN result
  ELSE AnalyzeImports(Tail(importDeclarations),
                      ClassifyImport(result, Head(importDeclarations).spec))

\* checkExportedFunction that looks at the export assignments only.
checkExportedFunction_AssignmentsOnly(script) ==
  \E a \in 1..Len(getExportAssignments(script)) :
    getKind(getExportAssignments(script)[a].expression) = 218

checkExportedFunction(script) ==
  \/ \E a \in 1..Len(getExportAssignments(script)) :
        getKind(getExportAssignments(script)[a].expression) = 218
  \/ \E f \in 1..Len(getFunctions(script)) : getFunctions(script)[f].exported

\* the try block of analyzeScript once the source file exists
ImportAnalysis(script) ==
  [AnalyzeImports(getImportDeclarations(script), NewScriptAnalysisResult)
     EXCEPT !.hasExportedFunction = checkExportedFunction(script)]

\* ImportFailure that records the message and leaves result.valid alone.
ImportFailure_StillValid(result, message) ==
  [result EXCEPT !.errors = Append(@, message)]

\* the catch block of analyzeScript
ImportFailure(result, message) ==
  [result EXCEPT !.valid = FALSE, !.errors = Append(@, message)]

(***************************************************************************)
(* SecurityAnalyzer (utils/security-analyzer.ts).                          *)
(***************************************************************************)
NewAnalysisResult == [valid |-> TRUE, errors |-> <<>>]

errorMessage(patternType) ==
  CASE patternType = DANGEROUS_FUNCTIONS ->
         "Script contains dangerous functions that could execute arbitrary code"
    [] patternType = XSS_PATTERNS ->
         "Script contains XSS patterns that could inject malicious content"
    [] patternType = SQL_INJECTION ->
         "Script contains SQL injection patterns"
    [] patternType = CODE_OBFUSCATION ->
         "Script contains code obfuscation patterns that may hide malicious intent"

ViolationError(patternType, violatingCode) ==
  errorMessage(patternType) \o " (found: " \o violatingCode \o ")"

\* ReportMatch without the reset of line 92: exec() leaves lastIndex at the end
\* of the match it found.
ReportMatch_NoFinalReset(type, pattern, script, idx, result, found) ==
  LET reset == 0
      m == exec(pattern, script, reset)
      fresh == m.found /\ m.match \notin found
  IN  [result |-> IF fresh
                  THEN [valid |-> FALSE,
                        errors |-> Append(result.errors,
                                          ViolationError(type, m.match))]
                  ELSE result,
       found |-> IF fresh THEN found \cup {m.match} ELSE found,
       lastIndex |-> m.lastIndex]

\* the matched substrings of the pattern in the script, leftmost first
RECURSIVE MatchTexts(_)
MatchTexts(matches) ==
  IF matches = {} THEN <<>>
  ELSE LET m == CHOOSE x \in matches : \A y \in matches : x.start <= y.start
       IN  <<m.match>> \o MatchTexts(matches \ {m})

\* ReportMatch that records every match of the pattern, found before or not.
ReportMatch_EveryMatch(type, pattern, script, idx, result, found) ==
  LET texts == MatchTexts(MatchesIn(pattern, script))
  IN  [result |-> [valid |-> FALSE,
                   errors |-> result.errors
                                \o [i \in 1..Len(texts) |->
                                      ViolationError(type, texts[i])]],
       found |-> found \cup { texts[i] : i \in 1..Len(texts) },
       lastIndex |-> 0]

\* ReportMatch without the reset of line 80: exec() starts where test() ended.
ReportMatch_NoResetBeforeExec(type, pattern, script, idx, result, found) ==
  LET m == exec(pattern, script, idx)
      fresh == m.found /\ m.match \notin found
  IN  [result |-> IF fresh
                  THEN [valid |-> FALSE,
                        errors |-> Append(result.errors,
                                          ViolationError(type, m.match))]
                  ELSE result,
       found |-> IF fresh THEN found \cup {m.match} ELSE found,
       lastIndex |-> 0]

\* checkPatterns lines 78-92, after test() returned true and left the pattern's
\* lastIndex at idx: lastIndex is reset, exec() is run once, a violation not yet
\* found in this category is recorded, and lastIndex is reset again.  Gives the
\* result, the found set and the pattern's lastIndex.
ReportMatch(type, pattern, script, idx, result, found) ==
  LET reset == 0
      m == exec(pattern, script, reset)
      fresh == m.found /\ m.match \notin found
  IN  [result |-> IF fresh
                  THEN [valid |-> FALSE,
                        errors |-> Append(result.errors,
                                          ViolationError(type, m.match))]
                  ELSE result,
       found |-> IF fresh THEN found \cup {m.match} ELSE found,
       lastIndex |-> 0]

(***************************************************************************)
(* ResourceAnalyzer (utils/resource-analyzer.ts).                          *)
(***************************************************************************)
\* script.length > maxScriptSize
ExceedsMaxScriptSize(script) == ScriptLength(script) > maxScriptSize

ResourceSizeError(script) ==
  "Script size exceeds maximum allowed length: "
    \o ToString(ScriptLength(script)) \o " > " \o ToString(maxScriptSize)
    \o " bytes"

InvalidVUsError(valueText) ==
  "Invalid VUs value: '" \o Str(valueText) \o "' is not a number (found: vus: "
    \o Str(valueText) \o ")"

VUsLimitError(vusValue) ==
  "VUs limit exceeded: " \o ToString(vusValue) \o " > " \o ToString(maxVUs)
    \o " (found: vus: " \o ToString(vusValue) \o ")"

\* the body of `if (propertyName === 'vus')` up to the break
CheckVusValue(result, valueText) ==
  IF valueText = <<>> THEN result
  ELSE LET vusValue == parseInt(valueText)
       IN  IF vusValue.isNaN
           THEN [valid |-> FALSE,
                 errors |-> Append(result.errors, InvalidVUsError(valueText))]
           ELSE IF vusValue.value > maxVUs
           THEN [valid |-> FALSE,
                 errors |-> Append(result.errors, VUsLimitError(vusValue.value))]
           ELSE result

\* CheckVus without the break of line 63: every property named vus is checked.
RECURSIVE CheckVus_NoBreak(_, _)
CheckVus_NoBreak(propertyAssignments, result) ==
  IF propertyAssignments = <<>> THEN result
  ELSE IF Head(propertyAssignments).name = "vus"
  THEN CheckVus_NoBreak(Tail(propertyAssignments),
                        CheckVusValue(result, Head(propertyAssignments).value))
  ELSE CheckVus_NoBreak(Tail(propertyAssignments), result)

\* the loop over the property assignments: the first one named vus decides
RECURSIVE CheckVus(_, _)
CheckVus(propertyAssignments, result) ==
  IF propertyAssignments = <<>> THEN result
  ELSE IF Head(propertyAssignments).name = "vus"
  THEN CheckVusValue(result, Head(propertyAssignments).value)
  ELSE CheckVus(Tail(propertyAssignments), result)

(***************************************************************************)
(* validateScript (routes/validation.ts).                                  *)
(***************************************************************************)
\* ExceedsMaxFileSize with >= for >.
ExceedsMaxFileSize_Inclusive(script) == ScriptLength(script) >= maxFileSize

\* script.length > SCRIPT_CONFIG.maxFileSize
ExceedsMaxFileSize(script) == ScriptLength(script) > maxFileSize

ScriptSizeError(script) ==
  "Script size (" \o ToString(ScriptLength(script))
    \o " bytes) exceeds maximum allowed size (" \o ToString(maxFileSize)
    \o " bytes)"

MissingK6Import ==
  "Script must contain at least one K6 import (e.g., import http from 'k6/http')"

MissingProtocolImport ==
  "Script must import at least one protocol module (k6/http, k6/ws, or k6/net/grpc)"

MissingExportedFunction == "Script must contain an exported test function"

\* lines 45-48: the errors list after the size check
SizeCheck(script) ==
  IF ExceedsMaxFileSize(script) THEN <<ScriptSizeError(script)>> ELSE <<>>

\* StructuralErrors without the check for an exported function.
StructuralErrors_NoExportCheck(errs, analysis) ==
  errs
    \o (IF ~analysis.valid THEN analysis.errors ELSE <<>>)
    \o (IF ~analysis.hasK6Imports THEN <<MissingK6Import>> ELSE <<>>)
    \o (IF ~analysis.hasProtocolImports THEN <<MissingProtocolImport>> ELSE <<>>)

\* lines 52-69: the errors list after the structural phase
StructuralErrors(errs, analysis) ==
  errs
    \o (IF ~analysis.valid THEN analysis.errors ELSE <<>>)
    \o (IF ~analysis.hasK6Imports THEN <<MissingK6Import>> ELSE <<>>)
    \o (IF ~analysis.hasProtocolImports THEN <<MissingProtocolImport>> ELSE <<>>)
    \o (IF ~analysis.hasExportedFunction THEN <<MissingExportedFunction>> ELSE <<>>)

\* StructuralGate without the early return.
StructuralGate_Never(errs) == FALSE

\* lines 71-74: the structural phase ends the call when it found an error
StructuralGate(errs) == Len(errs) > 0

\* FinalResponse with errors.length >= 0 as its test.
FinalResponse_NonStrict(errs) ==
  IF Len(errs) >= 0 THEN error(errs, "Script validation failed") ELSE success

\* lines 84-90: the verdict once every analyzer has run
FinalResponse(errs) ==
  IF Len(errs) > 0 THEN error(errs, "Script validation failed") ELSE success


(***************************************************************************)
(* Scripts.  hazard names what the parser does with the script: "none",    *)
(* "parse" (createSourceFile raises) or "walk" (the tree is built, walking *)
(* all its descendants raises).                                            *)
(***************************************************************************)
Script(items, hazard) == [items |-> items, hazard |-> hazard]

SeqsUpTo(S, n) == UNION { [1..k -> S] : k \in 0..n }

\* items followed by a comment that brings the text to exactly length characters
PadTo(items, length) == Append(items, Filler(length - TextLength(items)))

httpImport == ImportDeclaration(<<"k6", "http">>)

defaultFunction == FunctionDeclaration("export default")

httpGet == Code("http.get('https://test.k6.io');")

Header == <<httpImport, defaultFunction>>

\* the scripts of __tests__/validation-stability.test.ts
validK6Script == Script(Header \o <<httpGet>>, "none")

scriptWithSecurityViolation ==
  Script(Header \o <<Code("eval('test1');"), httpGet>>, "none")

scriptWithMultipleViolations ==
  Script(Header \o <<Code("eval('test1');"), Code("Function('return 1')();"),
                     Code("document.write('<script>alert(1)</script>');"),
                     httpGet>>, "none")

\* no import at all, and an eval call
scriptWithoutImports ==
  Script(<<defaultFunction, Code("eval('test1');"), httpGet>>, "none")

\* the eval call stands after the request
scriptWithLateViolation ==
  Script(Header \o <<httpGet, Code("eval('test2');")>>, "none")

scriptWithExcessiveVUs ==
  Script(Header \o <<PropertyAssignment("vus", <<"2", "0", "0", "0">>), httpGet>>,
         "none")

scriptTooDeepToWalk == Script(Header \o <<httpGet>>, "walk")

scriptTooDeepToParse == Script(Header \o <<httpGet>>, "parse")

\* the scripts of the sequential specification
SequenceScripts ==
  { validK6Script, scriptWithSecurityViolation, scriptWithMultipleViolations,
    scriptWithoutImports, scriptWithLateViolation, scriptWithExcessiveVUs,
    scriptTooDeepToWalk, scriptTooDeepToParse }

ImportSpecifiers ==
  { <<"k6">>, <<"k6", "http">>, <<"k6", "net", "grpc">>, <<".", "local.js">>,
    <<"fs">>, <<"left-pad">> }

ExportForms ==
  { FunctionDeclaration("export default"), FunctionDeclaration("export"),
    FunctionDeclaration(""), ExportAssignment("FunctionExpression"),
    ExportAssignment("ParenthesizedExpression"),
    ExportAssignment("ArrowFunction"), ExportAssignment("Identifier") }

\* the code fragments a generated body draws from, by the category they concern
Fragments(patternType) ==
  CASE patternType = DANGEROUS_FUNCTIONS ->
         { "eval('test1');", "eval('test2');", "eval ('test3');",
           "const fn = new Function('return 1');",
           "this['Function']('return 42');", "Function('return 1')();" }
    [] patternType = XSS_PATTERNS ->
         { "document.write('<script>alert(1)</script>');",
           "const u = 'javascript:void(0)';",
           "el.innerHTML = '<a onclick=go()>';", "el.onload = go;" }
    [] patternType = SQL_INJECTION ->
         { "const q = 'a UNION SELECT b FROM t';", "const r = 'select a from t';",
           "const d = 'DROP TABLE users';" }
    [] patternType = CODE_OBFUSCATION ->
         { "const s = '\\x41';", "const t = '\\x4a\\x41';", "const w = '\\u0041';",
           "String.fromCharCode(104);" }

VusProperties ==
  { PropertyAssignment("vus", <<"1", "0", "0">>),
    PropertyAssignment("vus", <<"5", "0", "0">>),
    PropertyAssignment("vus", <<"5", "0", "1">>),
    PropertyAssignment("vus", <<"'", "a", "b", "c", "'">>),
    PropertyAssignment("vus", <<"1", "e", "3">>),
    PropertyAssignment("'vus'", <<"9", "0", "0">>),
    PropertyAssignment("duration", <<"'", "3", "0", "s", "'">>) }

StructureScripts ==
  { Script(i \o <<e>>, "none") :
      i \in { [k \in DOMAIN q |-> ImportDeclaration(q[k])] :
                q \in SeqsUpTo(ImportSpecifiers, MaxImports) },
      e \in ExportForms }

BodyScripts ==
  { Script(Header \o [k \in DOMAIN b |-> Code(b[k])], "none") :
      b \in UNION { SeqsUpTo(Fragments(SecurityPatternType[c]), MaxChunks) :
                      c \in 1..Len(SecurityPatternType) } }

OptionsScripts ==
  { Script(Header \o o, "none") : o \in SeqsUpTo(VusProperties, MaxProps) }

SizedScripts ==
  { Script(PadTo(h, n), "none") :
      h \in { Header, <<httpGet>>,
              Header \o <<PropertyAssignment("vus", <<"5", "0", "1">>)>> },
      n \in { maxScriptSize - 1, maxScriptSize, maxScriptSize + 1 } }

\* specifiers next to the borders of the three import classes
BorderSpecifiers ==
  { <<"k6", "ws">>, <<"k6", "metrics">>, <<"..", "config.js">>, <<"k6-utils">>,
    <<"fs", "promises">>, <<"path">> }

ClassificationScripts ==
  { Script([k \in DOMAIN q |-> ImportDeclaration(q[k])] \o <<defaultFunction>>,
           "none") :
      q \in SeqsUpTo(BorderSpecifiers, MaxImports) }

\* the scripts of the single-call specification
\* scripts in which both SecurityAnalyzer and ResourceAnalyzer find something:
\* the vus property first, then a fragment of a later category before one of
\* an earlier category
MixedScripts ==
  { Script(Header \o <<v, Code("document.write('<script>alert(1)</script>');"),
                       Code("eval('test1');")>>, "none") :
      v \in { PropertyAssignment("vus", <<"5", "0", "1">>),
              PropertyAssignment("vus", <<"'", "a", "b", "c", "'">>) } }

AllScripts ==
  SequenceScripts \cup StructureScripts \cup BodyScripts \cup OptionsScripts
    \cup SizedScripts \cup ClassificationScripts \cup MixedScripts


(***************************************************************************)
(* State.                                                                  *)
(***************************************************************************)
VARIABLES
  pc,               \* where the running call stands; "idle" between calls
  entry,            \* the function the caller invoked
  script,           \* its argument
  calls,            \* calls made so far
  errors,           \* validateScript's errors list
  analysis,         \* ImportAnalyzer's result
  security,         \* SecurityAnalyzer's result
  resource,         \* ResourceAnalyzer's result
  cursor,           \* checkPatterns: <<category, pattern>> under test
  foundViolations,  \* checkPatterns: the set of violations of this category
  lastIndex,        \* lastIndex of every compiled pattern (process-wide)
  compiledPatterns, \* SecurityAnalyzer.compiledPatterns: category -> patterns
  compilations,     \* how many patterns have been compiled since the load
  RE2Ctor,          \* the constructor the patterns were compiled with
  requests,         \* the requests POST /validate has received, in order
  created,          \* how many source files the call in progress has created
  sourceFiles,      \* the source files that exist, by the analyzer owning them
  invoked,          \* the analyzers the running call has invoked, in order
  exception,        \* the exception the running call has raised, if any
  outcome,          \* what the last finished call returned or raised
  history           \* script and response of every finished validateScript call

vars ==
  <<pc, entry, script, calls, errors, analysis, security, resource, cursor,
    foundViolations, lastIndex, sourceFiles, invoked, exception, outcome,
    history, compiledPatterns, compilations, RE2Ctor, requests, created>>

NoScript == Script(<<>>, "none")

NoException == [raised |-> FALSE, message |-> ""]

\* outcome.status: "pending", "returned" or "raised"
Pending ==
  [status |-> "pending", response |-> success, result |-> NewScriptAnalysisResult,
   message |-> ""]

Init ==
  /\ pc = "idle"
  /\ entry = "none"
  /\ script = NoScript
  /\ calls = 0
  /\ errors = <<>>
  /\ analysis = NewScriptAnalysisResult
  /\ security = NewAnalysisResult
  /\ resource = NewAnalysisResult
  /\ cursor = <<1, 1>>
  /\ foundViolations = {}
  /\ lastIndex = [p \in AllPatterns |-> 0]
  /\ compiledPatterns = CompiledAtInitialization
  /\ compilations = Cardinality(AllPatterns)
  /\ RE2Ctor \in { LoadRE2Ctor(re2) : re2 \in Re2Addon }
  /\ requests = <<>>
  /\ created = 0
  /\ sourceFiles = {}
  /\ invoked = <<>>
  /\ exception = NoException
  /\ outcome = Pending
  /\ history = <<>>

\* A caller invokes function f on script s: the call's locals are fresh.
Invoke(f, s, first) ==
  /\ pc = "idle"
  /\ pc' = first
  /\ entry' = f
  /\ script' = s
  /\ calls' = calls + 1
  /\ analysis' = NewScriptAnalysisResult
  /\ security' = NewAnalysisResult
  /\ resource' = NewAnalysisResult
  /\ cursor' = <<1, 1>>
  /\ foundViolations' = {}
  /\ exception' = NoException
  /\ outcome' = Pending
  /\ created' = 0
  /\ UNCHANGED <<lastIndex, sourceFiles, history,
                 compiledPatterns, compilations, RE2Ctor>>

\* The running call returns value v to its caller (one of the analyzers).
Return(v) ==
  /\ outcome' = [Pending EXCEPT !.status = "returned", !.result = v]
  /\ pc' = "idle"

\* validateScript resolves to response r.
Respond(r) ==
  /\ outcome' = [Pending EXCEPT !.status = "returned", !.response = r]
  /\ history' = Append(history, [script |-> script, response |-> r])
  /\ pc' = "idle"

(***************************************************************************)
(* validateScript, lines 39-51: the size check, then ImportAnalyzer.       *)
(***************************************************************************)
validateScript(s) ==
  /\ Invoke("validateScript", s, "ia_parse")
  /\ errors' = SizeCheck(s)
  /\ invoked' = <<"ImportAnalyzer">>

\* ImportAnalyzer.analyzeScript called on its own
ImportAnalyzer_analyzeScript(s) ==
  /\ Invoke("ImportAnalyzer", s, "ia_parse")
  /\ errors' = <<>>
  /\ invoked' = <<>>

\* analyzeScript lines 24-37 (and 67-75 when createSourceFile raises: no source
\* file exists, so the finally block deletes nothing)
ImportAnalyzer_createSourceFile ==
  /\ pc = "ia_parse"
  /\ IF createSourceFileThrows(script)
     THEN /\ analysis' = ImportFailure(analysis, ParseErrorMessage)
          /\ pc' = "ia_return"
          /\ UNCHANGED <<sourceFiles, created>>
     ELSE /\ sourceFiles' = sourceFiles \cup {"ImportAnalyzer"}
          /\ created' = created + 1
          /\ pc' = "ia_walk"
          /\ UNCHANGED analysis
  /\ UNCHANGED <<exception, entry, script, calls, errors, security, resource, cursor,
                 foundViolations, lastIndex, invoked, outcome, history,
                 compiledPatterns, compilations, RE2Ctor, requests>>

\* analyzeScript without its finally block: the source file is never deleted.
ImportAnalyzer_analyze_NoDelete ==
  /\ pc = "ia_walk"
  /\ analysis' = ImportAnalysis(script)
  /\ pc' = "ia_return"
  /\ UNCHANGED <<exception, entry, script, calls, errors, security, resource, cursor,
                 foundViolations, lastIndex, sourceFiles, invoked, outcome, history,
                 compiledPatterns, compilations, RE2Ctor, requests, created>>

\* analyzeScript lines 38-66 and the finally block
ImportAnalyzer_analyze ==
  /\ pc = "ia_walk"
  /\ analysis' = ImportAnalysis(script)
  /\ sourceFiles' = sourceFiles \ {"ImportAnalyzer"}
  /\ pc' = "ia_return"
  /\ UNCHANGED <<exception, entry, script, calls, errors, security, resource, cursor,
                 foundViolations, lastIndex, invoked, outcome, history,
                 compiledPatterns, compilations, RE2Ctor, requests, created>>

\* analyzeScript line 77, called on its own
ImportAnalyzer_return ==
  /\ pc = "ia_return"
  /\ entry = "ImportAnalyzer"
  /\ Return(analysis)
  /\ UNCHANGED <<exception, entry, script, calls, errors, analysis, security, resource,
                 cursor, foundViolations, lastIndex, sourceFiles, invoked,
                 history,
                 compiledPatterns, compilations, RE2Ctor, requests, created>>

\* validateScript lines 52-74, then line 77 when the structural phase passed
validateScript_structural ==
  /\ pc = "ia_return"
  /\ entry = "validateScript"
  /\ errors' = StructuralErrors(errors, analysis)
  /\ IF StructuralGate(errors')
     THEN /\ Respond(error(errors', "Script validation failed"))
          /\ UNCHANGED invoked
     ELSE /\ pc' = "sa_test"
          /\ invoked' = Append(invoked, "SecurityAnalyzer")
          /\ UNCHANGED <<outcome, history>>
  /\ UNCHANGED <<exception, entry, script, calls, analysis, security, resource, cursor,
                 foundViolations, lastIndex, sourceFiles,
                 compiledPatterns, compilations, RE2Ctor, requests, created>>


(***************************************************************************)
(* SecurityAnalyzer.analyzeScript: checkPatterns for the four categories,  *)
(* one pattern at a time.                                                  *)
(***************************************************************************)
SecurityAnalyzer_analyzeScript(s) ==
  /\ Invoke("SecurityAnalyzer", s, "sa_test")
  /\ errors' = <<>>
  /\ invoked' = <<>>

patternType == SecurityPatternType[cursor[1]]

re2Pattern == compiledPatterns[patternType][cursor[2]]

\* the loop of checkPatterns moves to the next pattern; analyzeScript moves to
\* the next category, with a new foundViolations set; after the last, it returns
NextPattern(found) ==
  IF cursor[2] < Len(compiledPatterns[patternType])
  THEN /\ cursor' = <<cursor[1], cursor[2] + 1>>
       /\ foundViolations' = found
       /\ pc' = "sa_test"
  ELSE IF cursor[1] < Len(SecurityPatternType)
  THEN /\ cursor' = <<cursor[1] + 1, 1>>
       /\ foundViolations' = {}
       /\ pc' = "sa_test"
  ELSE /\ cursor' = cursor
       /\ foundViolations' = found
       /\ pc' = "sa_return"

\* checkPatterns that compiles the pattern anew before it tests it.
checkPatterns_test_Recompiles ==
  /\ pc = "sa_test"
  /\ compilations' = compilations + 1
  /\ compiledPatterns' =
       [compiledPatterns EXCEPT ![patternType][cursor[2]] =
                                   SECURITY_PATTERNS(patternType)[cursor[2]]]
  /\ LET t == exec(re2Pattern, script, 0)
     IN  /\ lastIndex' = [lastIndex EXCEPT ![re2Pattern] = t.lastIndex]
         /\ IF t.found
            THEN /\ pc' = "sa_match"
                 /\ UNCHANGED <<cursor, foundViolations>>
            ELSE NextPattern(foundViolations)
  /\ UNCHANGED <<exception, entry, script, calls, errors, analysis, security, resource,
                 sourceFiles, invoked, outcome, history, RE2Ctor, requests, created>>

\* checkPatterns line 77: re2Pattern.test(script), which starts at the
\* pattern's lastIndex and leaves it at the end of the match, or at 0
checkPatterns_test ==
  /\ pc = "sa_test"
  /\ LET t == exec(re2Pattern, script, lastIndex[re2Pattern])
     IN  /\ lastIndex' = [lastIndex EXCEPT ![re2Pattern] = t.lastIndex]
         /\ IF t.found
            THEN /\ pc' = "sa_match"
                 /\ UNCHANGED <<cursor, foundViolations>>
            ELSE NextPattern(foundViolations)
  /\ UNCHANGED <<exception, entry, script, calls, errors, analysis, security, resource,
                 sourceFiles, invoked, outcome, history,
                 compiledPatterns, compilations, RE2Ctor, requests, created>>

\* checkPatterns lines 78-92
checkPatterns_match ==
  /\ pc = "sa_match"
  /\ LET r == ReportMatch(patternType, re2Pattern, script,
                          lastIndex[re2Pattern], security, foundViolations)
     IN  /\ security' = r.result
         /\ lastIndex' = [lastIndex EXCEPT ![re2Pattern] = r.lastIndex]
         /\ NextPattern(r.found)
  /\ UNCHANGED <<exception, entry, script, calls, errors, analysis, resource, sourceFiles,
                 invoked, outcome, history,
                 compiledPatterns, compilations, RE2Ctor, requests, created>>

\* analyzeScript line 45, called on its own
SecurityAnalyzer_return ==
  /\ pc = "sa_return"
  /\ entry = "SecurityAnalyzer"
  /\ Return(security)
  /\ UNCHANGED <<exception, entry, script, calls, errors, analysis, security, resource,
                 cursor, foundViolations, lastIndex, sourceFiles, invoked,
                 history,
                 compiledPatterns, compilations, RE2Ctor, requests, created>>

\* validateScript lines 78-81: merge the security errors, call ResourceAnalyzer
validateScript_security ==
  /\ pc = "sa_return"
  /\ entry = "validateScript"
  /\ errors' = errors \o security.errors
  /\ invoked' = Append(invoked, "ResourceAnalyzer")
  /\ pc' = "ra_size"
  /\ UNCHANGED <<exception, entry, script, calls, analysis, security, resource, cursor,
                 foundViolations, lastIndex, sourceFiles, outcome, history,
                 compiledPatterns, compilations, RE2Ctor, requests, created>>

(***************************************************************************)
(* ResourceAnalyzer.analyzeScript: checkVUsLimit.                          *)
(***************************************************************************)
ResourceAnalyzer_analyzeScript(s) ==
  /\ Invoke("ResourceAnalyzer", s, "ra_size")
  /\ errors' = <<>>
  /\ invoked' = <<>>

\* checkVUsLimit without the return of line 27: after the size error it goes on
\* to parse the script.
checkVUsLimit_size_NoReturn ==
  /\ pc = "ra_size"
  /\ IF ExceedsMaxScriptSize(script)
     THEN resource' = [valid |-> FALSE,
                       errors |-> Append(resource.errors,
                                         ResourceSizeError(script))]
     ELSE UNCHANGED resource
  /\ pc' = "ra_parse"
  /\ UNCHANGED <<exception, entry, script, calls, errors, analysis, security, cursor,
                 foundViolations, lastIndex, sourceFiles, invoked, outcome,
                 history,
                 compiledPatterns, compilations, RE2Ctor, requests, created>>

\* checkVUsLimit lines 23-28
checkVUsLimit_size ==
  /\ pc = "ra_size"
  /\ IF ExceedsMaxScriptSize(script)
     THEN /\ resource' = [valid |-> FALSE,
                          errors |-> Append(resource.errors,
                                            ResourceSizeError(script))]
          /\ pc' = "ra_return"
     ELSE /\ pc' = "ra_parse"
          /\ UNCHANGED resource
  /\ UNCHANGED <<exception, entry, script, calls, errors, analysis, security, cursor,
                 foundViolations, lastIndex, sourceFiles, invoked, outcome,
                 history,
                 compiledPatterns, compilations, RE2Ctor, requests, created>>

\* checkVUsLimit lines 30-40: createSourceFile stands before the try block
checkVUsLimit_createSourceFile ==
  /\ pc = "ra_parse"
  /\ IF createSourceFileThrows(script)
     THEN /\ pc' = "ra_raise"
          /\ exception' = [raised |-> TRUE, message |-> ParseErrorMessage]
          /\ UNCHANGED <<sourceFiles, created>>
     ELSE /\ sourceFiles' = sourceFiles \cup {"ResourceAnalyzer"}
          /\ created' = created + 1
          /\ pc' = "ra_walk"
          /\ UNCHANGED exception
  /\ UNCHANGED <<entry, script, calls, errors, analysis, security, resource,
                 cursor, foundViolations, lastIndex, invoked, outcome, history,
                 compiledPatterns, compilations, RE2Ctor, requests>>

\* checkVUsLimit whose sourceFile.delete() stands at the end of the try block
\* instead of a finally block: it is skipped when the walk raises.
checkVUsLimit_walk_NoFinally ==
  /\ pc = "ra_walk"
  /\ IF getDescendantsThrows(script)
     THEN /\ pc' = "ra_raise"
          /\ exception' = [raised |-> TRUE, message |-> ParseErrorMessage]
          /\ UNCHANGED <<resource, sourceFiles>>
     ELSE /\ resource' = CheckVus(getPropertyAssignments(script), resource)
          /\ pc' = "ra_return"
          /\ sourceFiles' = sourceFiles \ {"ResourceAnalyzer"}
          /\ UNCHANGED exception
  /\ UNCHANGED <<entry, script, calls, errors, analysis, security, cursor,
                 foundViolations, lastIndex, invoked, outcome, history,
                 compiledPatterns, compilations, RE2Ctor, requests, created>>

\* checkVUsLimit lines 42-68: the try block and its finally
checkVUsLimit_walk ==
  /\ pc = "ra_walk"
  /\ IF getDescendantsThrows(script)
     THEN /\ pc' = "ra_raise"
          /\ exception' = [raised |-> TRUE, message |-> ParseErrorMessage]
          /\ UNCHANGED resource
     ELSE /\ resource' = CheckVus(getPropertyAssignments(script), resource)
          /\ pc' = "ra_return"
          /\ UNCHANGED exception
  /\ sourceFiles' = sourceFiles \ {"ResourceAnalyzer"}
  /\ UNCHANGED <<entry, script, calls, errors, analysis, security, cursor,
                 foundViolations, lastIndex, invoked, outcome, history,
                 compiledPatterns, compilations, RE2Ctor, requests, created>>

\* analyzeScript line 19, called on its own
ResourceAnalyzer_return ==
  /\ pc = "ra_return"
  /\ entry = "ResourceAnalyzer"
  /\ Return(resource)
  /\ UNCHANGED <<exception, entry, script, calls, errors, analysis, security, resource,
                 cursor, foundViolations, lastIndex, sourceFiles, invoked,
                 history,
                 compiledPatterns, compilations, RE2Ctor, requests, created>>

\* the exception leaves ResourceAnalyzer.analyzeScript, called on its own
ResourceAnalyzer_raise ==
  /\ pc = "ra_raise"
  /\ entry = "ResourceAnalyzer"
  /\ outcome' = [Pending EXCEPT !.status = "raised",
                                 !.message = exception.message]
  /\ pc' = "idle"
  /\ UNCHANGED <<exception, entry, script, calls, errors, analysis, security, resource,
                 cursor, foundViolations, lastIndex, sourceFiles, invoked,
                 history,
                 compiledPatterns, compilations, RE2Ctor, requests, created>>

\* validateScript that puts the resource errors before the errors it has.
validateScript_resource_ResourceFirst ==
  /\ pc = "ra_return"
  /\ entry = "validateScript"
  /\ errors' = resource.errors \o errors
  /\ Respond(FinalResponse(errors'))
  /\ UNCHANGED <<exception, entry, script, calls, analysis, security, resource, cursor,
                 foundViolations, lastIndex, sourceFiles, invoked,
                 compiledPatterns, compilations, RE2Ctor, requests, created>>

\* validateScript lines 82-90
validateScript_resource ==
  /\ pc = "ra_return"
  /\ entry = "validateScript"
  /\ errors' = errors \o resource.errors
  /\ Respond(FinalResponse(errors'))
  /\ UNCHANGED <<exception, entry, script, calls, analysis, security, resource, cursor,
                 foundViolations, lastIndex, sourceFiles, invoked,
                 compiledPatterns, compilations, RE2Ctor, requests, created>>

\* validateScript without its catch block: the exception leaves validateScript.
validateScript_catch_Rethrows ==
  /\ pc = "ra_raise"
  /\ entry = "validateScript"
  /\ outcome' = [Pending EXCEPT !.status = "raised",
                                 !.message = exception.message]
  /\ pc' = "idle"
  /\ UNCHANGED <<exception, entry, script, calls, errors, analysis, security, resource,
                 cursor, foundViolations, lastIndex, sourceFiles, invoked,
                 history,
                 compiledPatterns, compilations, RE2Ctor, requests, created>>

\* validateScript lines 92-95: the catch block
validateScript_catch ==
  /\ pc = "ra_raise"
  /\ entry = "validateScript"
  /\ Respond(error(<<exception.message>>, "Validation error"))
  /\ UNCHANGED <<exception, entry, script, calls, errors, analysis, security, resource,
                 cursor, foundViolations, lastIndex, sourceFiles, invoked,
                 compiledPatterns, compilations, RE2Ctor, requests, created>>

(***************************************************************************)
(* Specifications.  Spec: up to MaxCalls calls, one after the other, on    *)
(* the scripts of the stability tests.  SpecSingle: one call on any        *)
(* script of AllScripts.                                                   *)
(***************************************************************************)
Step ==
  \/ ImportAnalyzer_createSourceFile
  \/ ImportAnalyzer_analyze
  \/ ImportAnalyzer_return
  \/ validateScript_structural
  \/ checkPatterns_test
  \/ checkPatterns_match
  \/ SecurityAnalyzer_return
  \/ validateScript_security
  \/ checkVUsLimit_size
  \/ checkVUsLimit_createSourceFile
  \/ checkVUsLimit_walk
  \/ ResourceAnalyzer_return
  \/ ResourceAnalyzer_raise
  \/ validateScript_resource
  \/ validateScript_catch

Call(s) ==
  /\ UNCHANGED requests
  /\ \/ validateScript(s)
     \/ ImportAnalyzer_analyzeScript(s)
     \/ SecurityAnalyzer_analyzeScript(s)
     \/ ResourceAnalyzer_analyzeScript(s)

Next ==
  \/ calls < MaxCalls /\ \E s \in SequenceScripts : Call(s)
  \/ Step

Spec == Init /\ [][Next]_vars

NextSingle ==
  \/ calls = 0 /\ \E s \in AllScripts : Call(s)
  \/ Step

SpecSingle == Init /\ [][NextSingle]_vars


(***************************************************************************)
(* POST /api/v1/validate (routes/validation.ts, lines 171-190).  A request *)
(* that passed request validation waits for its handler; the handler calls *)
(* validateScript, which has no await in it and so runs to its end before  *)
(* any other handler starts, and answers with the status of line 183 or,   *)
(* when the awaited call rejected, of line 187.  Requests arrive at any    *)
(* moment, also while a handler runs, and are handled in any order.        *)
(***************************************************************************)
\* how many requests the server specification receives
MaxRequests == 2

\* ValidationResponseBuilder.serverError
serverError ==
  [valid |-> FALSE, errors |-> <<"Internal server error during validation">>,
   warnings |-> <<>>, message |-> "Server error"]

\* the scripts of the requests
ServerScripts ==
  { validK6Script, scriptWithSecurityViolation, scriptWithLateViolation,
    scriptWithoutImports, scriptTooDeepToWalk }

\* no response sent yet
NoResponse == [valid |-> FALSE, errors |-> <<>>, warnings |-> <<>>, message |-> ""]

\* state: "received", "running" (its handler awaits validateScript) or
\* "responded"
Request(s) ==
  [script |-> s, state |-> "received", status |-> 0, body |-> NoResponse]

\* every variable but requests
callVars ==
  <<pc, entry, script, calls, errors, analysis, security, resource, cursor,
    foundViolations, lastIndex, sourceFiles, invoked, exception, outcome,
    history, compiledPatterns, compilations, RE2Ctor, created>>

\* a request with script s has passed request validation
router_post(s) ==
  /\ Len(requests) < MaxRequests
  /\ requests' = Append(requests, Request(s))
  /\ UNCHANGED callVars

\* lines 178-182: the handler of request i starts and calls validateScript
router_handler(i) ==
  /\ requests[i].state = "received"
  /\ \A j \in 1..Len(requests) : requests[j].state # "running"
  /\ validateScript(requests[i].script)
  /\ requests' = [requests EXCEPT ![i].state = "running"]

\* lines 183-188: the awaited call has settled; the handler sends the response
router_respond(i) ==
  /\ pc = "idle"
  /\ requests[i].state = "running"
  /\ requests' =
       [requests EXCEPT
          ![i] = IF outcome.status = "raised"
                 THEN [@ EXCEPT !.state = "responded", !.status = 500,
                                !.body = serverError]
                 ELSE [@ EXCEPT !.state = "responded",
                                !.status = IF outcome.response.valid
                                           THEN 200 ELSE 400,
                                !.body = outcome.response]]
  /\ UNCHANGED callVars

\* the steps of a validateScript call
StepValidateScript ==
  \/ ImportAnalyzer_createSourceFile
  \/ ImportAnalyzer_analyze
  \/ validateScript_structural
  \/ checkPatterns_test
  \/ checkPatterns_match
  \/ validateScript_security
  \/ checkVUsLimit_size
  \/ checkVUsLimit_createSourceFile
  \/ checkVUsLimit_walk
  \/ validateScript_resource
  \/ validateScript_catch

NextServer ==
  \/ \E s \in ServerScripts : router_post(s)
  \/ \E i \in 1..Len(requests) : router_handler(i)
  \/ \E i \in 1..Len(requests) : router_respond(i)
  \/ StepValidateScript

SpecServer == Init /\ [][NextServer]_vars

(***************************************************************************)
(* Properties.                                                             *)
(***************************************************************************)

\* C1 (determinism): successive validateScript calls on the same script
\* return the same response (valid, message and errors list), whatever the
\* process did before the first of them.
C1_Determinism ==
  \A i \in 1..(Len(history) - 1) :
    history[i].script = history[i + 1].script
      => history[i].response = history[i + 1].response

\* three calls in a row on the script with the eval call, each rejected with
\* its one error
C1_Witness ==
  /\ Len(history) = 3
  /\ \A i \in 1..3 :
       /\ history[i].script = scriptWithSecurityViolation
       /\ ~history[i].response.valid
       /\ Len(history[i].response.errors) = 1

\* C2 (order independence): the response for a script is the same before and
\* after a different script was validated: in validate(A), validate(B),
\* validate(A) both validations of A return the same response.
C2_OrderIndependence ==
  \A i, j, k \in 1..Len(history) :
    ( /\ i < j
      /\ j < k
      /\ history[j].script # history[i].script
      /\ history[k].script = history[i].script )
      => history[k].response = history[i].response

\* validate(valid), validate(malicious), validate(valid)
C2_Witness ==
  /\ Len(history) = 3
  /\ history[1].script = validK6Script
  /\ history[2].script = scriptWithSecurityViolation
  /\ history[3].script = validK6Script
  /\ history[1].response.valid
  /\ ~history[2].response.valid
  /\ history[3].response.valid

\* the structural phase of the running validateScript call found no error
StructuralPhaseClean ==
  /\ ScriptLength(script) <= maxFileSize
  /\ analysis.errors = <<>>
  /\ analysis.hasK6Imports
  /\ analysis.hasProtocolImports
  /\ analysis.hasExportedFunction

\* C3 (short-circuit): validateScript invokes SecurityAnalyzer and
\* ResourceAnalyzer only after a structural phase without errors; a call whose
\* structural phase found an error returns a failure having invoked
\* ImportAnalyzer alone.
C3_ShortCircuit ==
  entry = "validateScript" =>
    /\ (\E n \in 1..Len(invoked) :
          invoked[n] \in {"SecurityAnalyzer", "ResourceAnalyzer"})
         => StructuralPhaseClean
    /\ (pc = "idle" /\ ~StructuralPhaseClean)
         => (~outcome.response.valid /\ invoked = <<"ImportAnalyzer">>)

\* the script without imports holds an eval call: the call ends after the
\* structural phase with the two import errors, the eval call unreported
C3_Witness ==
  /\ entry = "validateScript"
  /\ pc = "idle"
  /\ script = scriptWithoutImports
  /\ invoked = <<"ImportAnalyzer">>
  /\ outcome.response.errors = <<MissingK6Import, MissingProtocolImport>>


\* C4 (acceptance): a finished validateScript call answers valid = true
\* exactly when no exception was raised, the script is no longer than
\* maxFileSize, ImportAnalyzer reported no error, the three required flags
\* are set, and SecurityAnalyzer and ResourceAnalyzer reported no error.
C4_Acceptance ==
  (entry = "validateScript" /\ pc = "idle") =>
    ( outcome.response.valid <=>
        /\ ~exception.raised
        /\ ScriptLength(script) <= maxFileSize
        /\ analysis.errors = <<>>
        /\ analysis.hasK6Imports
        /\ analysis.hasProtocolImports
        /\ analysis.hasExportedFunction
        /\ security.errors = <<>>
        /\ resource.errors = <<>> )

\* the valid script of the tests is accepted, all three analyzers having run
C4_Witness ==
  /\ entry = "validateScript"
  /\ pc = "idle"
  /\ script = validK6Script
  /\ invoked = <<"ImportAnalyzer", "SecurityAnalyzer", "ResourceAnalyzer">>
  /\ outcome.response.valid

\* C5 (response shape): in every response of validateScript valid is true
\* exactly when errors is empty, a success carries the message
\* 'Script validation passed', and warnings is empty.
C5_ResponseShape ==
  \A i \in 1..Len(history) :
    LET r == history[i].response
    IN  /\ r.valid <=> (r.errors = <<>>)
        /\ r.valid => r.message = "Script validation passed"
        /\ r.warnings = <<>>

\* the exception path: the catch block answers with the exception's message
\* as its one error
C5_Witness ==
  /\ Len(history) = 1
  /\ exception.raised
  /\ ~history[1].response.valid
  /\ history[1].response.message = "Validation error"
  /\ history[1].response.errors = <<"Maximum call stack size exceeded">>

\* valid is false exactly when errors is not empty
Coupled(result) == result.valid <=> (result.errors = <<>>)

\* C6 (valid and errors are coupled): the result of ImportAnalyzer, of
\* SecurityAnalyzer and of ResourceAnalyzer has valid = false exactly when
\* its errors list is not empty, while it is built and when it is returned.
C6_ValidIffNoErrors ==
  /\ Coupled(analysis)
  /\ Coupled(security)
  /\ Coupled(resource)
  /\ ( /\ outcome.status = "returned"
       /\ entry \in {"ImportAnalyzer", "SecurityAnalyzer", "ResourceAnalyzer"} )
       => Coupled(outcome.result)

\* ImportAnalyzer returns two import errors and valid = false
C6_Witness ==
  /\ entry = "ImportAnalyzer"
  /\ outcome.status = "returned"
  /\ ~outcome.result.valid
  /\ outcome.result.errors = <<"Forbidden Node.js module: fs",
                               "Unknown/disallowed import: left-pad">>

\* SecurityAnalyzer.analyzeScript has checked every category of the script
SecurityFinished ==
  \/ pc = "sa_return"
  \/ pc = "idle" /\ entry = "SecurityAnalyzer"
  \/ entry = "validateScript" /\ Len(invoked) = 3

\* how many errors of the list are the error e
Count(errs, e) == Cardinality({ i \in 1..Len(errs) : errs[i] = e })

PatternsOf(type) ==
  { SECURITY_PATTERNS(type)[i] : i \in 1..Len(SECURITY_PATTERNS(type)) }

Categories == { SecurityPatternType[c] : c \in 1..Len(SecurityPatternType) }

\* the distinct substrings of the script the pattern matches
Snippets(pattern, s) == { m.match : m \in MatchesIn(pattern, s) }

\* C7 (dedup law): no error appears twice in the result of
\* SecurityAnalyzer.analyzeScript, and a pattern that matches the same
\* substring at every one of its occurrences in the script (three eval( calls
\* with different arguments) gives exactly one error for that substring.
C7_Dedup ==
  /\ \A i, j \in 1..Len(security.errors) :
       i # j => security.errors[i] # security.errors[j]
  /\ SecurityFinished =>
       \A type \in Categories : \A p \in PatternsOf(type) :
         \A m \in Snippets(p, script) :
           Snippets(p, script) = {m}
             => Count(security.errors, ViolationError(type, m)) = 1

\* three eval( calls, one error
C7_Witness ==
  /\ entry = "SecurityAnalyzer"
  /\ outcome.status = "returned"
  /\ Cardinality(MatchesIn("evalCall", script)) = 3
  /\ Snippets("evalCall", script) = {"eval("}
  /\ outcome.result.errors =
       << "Script contains dangerous functions that could execute arbitrary code (found: eval()" >>


\* the distinct substrings of the script some pattern of the category matches
CategorySnippets(type, s) == UNION { Snippets(p, s) : p \in PatternsOf(type) }

\* the substrings that are the leftmost match of some pattern of the category
LeftmostSnippets(type, s) ==
  { (CHOOSE x \in M : \A y \in M : x.start <= y.start).match :
      M \in { MatchesIn(p, s) : p \in PatternsOf(type) } \ { {} } }

\* C8 as claimed: every distinct substring of the script that a pattern of a
\* category matches appears in exactly one error of that category.
C8_EverySnippetReported ==
  SecurityFinished =>
    \A type \in Categories : \A m \in CategorySnippets(type, script) :
      Count(security.errors, ViolationError(type, m)) = 1

\* C8 as amended: SecurityAnalyzer.analyzeScript reports, per category, one
\* error for each distinct substring that is the leftmost match of a pattern
\* of the category, and no other error; a substring a pattern matches only
\* after its leftmost match is not reported.
C8_LeftmostSnippetPerPattern ==
  SecurityFinished =>
    /\ \A type \in Categories :
         LET leftmost == LeftmostSnippets(type, script)
         IN  \A m \in CategorySnippets(type, script) :
               Count(security.errors, ViolationError(type, m))
                 = IF m \in leftmost THEN 1 ELSE 0
    /\ Len(security.errors)
         = Cardinality(LeftmostSnippets(DANGEROUS_FUNCTIONS, script))
           + Cardinality(LeftmostSnippets(XSS_PATTERNS, script))
           + Cardinality(LeftmostSnippets(SQL_INJECTION, script))
           + Cardinality(LeftmostSnippets(CODE_OBFUSCATION, script))

\* eval( and then eval ( in one script: the one error names eval(
C8_Witness ==
  /\ entry = "SecurityAnalyzer"
  /\ outcome.status = "returned"
  /\ Snippets("evalCall", script) = {"eval(", "eval ("}
  /\ LeftmostSnippets(DANGEROUS_FUNCTIONS, script) = {"eval("}
  /\ outcome.result.errors =
       << "Script contains dangerous functions that could execute arbitrary code (found: eval()" >>

\* C9 (size boundary): a script of exactly 51200 characters gets no size
\* error from validateScript nor from ResourceAnalyzer.analyzeScript; one of
\* 51201 characters gets from each a size error naming 51201 and 51200.
C9_SizeBoundary ==
  /\ (entry = "validateScript" /\ pc = "idle") =>
       /\ ScriptLength(script) = 51200 =>
            Count(outcome.response.errors,
                  "Script size (51200 bytes) exceeds maximum allowed size (51200 bytes)") = 0
       /\ ScriptLength(script) = 51201 =>
            /\ ~outcome.response.valid
            /\ outcome.response.errors[1] =
                 "Script size (51201 bytes) exceeds maximum allowed size (51200 bytes)"
  /\ (entry = "ResourceAnalyzer" /\ outcome.status = "returned") =>
       /\ ScriptLength(script) = 51200 =>
            Count(outcome.result.errors,
                  "Script size exceeds maximum allowed length: 51200 > 51200 bytes") = 0
       /\ ScriptLength(script) = 51201 =>
            outcome.result.errors =
              << "Script size exceeds maximum allowed length: 51201 > 51200 bytes" >>

\* a script of exactly 51200 characters is accepted by validateScript
C9_Witness ==
  /\ entry = "validateScript"
  /\ pc = "idle"
  /\ ScriptLength(script) = 51200
  /\ Len(invoked) = 3
  /\ outcome.response.valid

\* the value of a numeric literal: decimal digits, or digits e digits
RECURSIVE Decimal(_)
Decimal(chars) ==
  IF chars = <<>> THEN 0
  ELSE 10 * Decimal(SubSeq(chars, 1, Len(chars) - 1))
         + DigitValue(chars[Len(chars)])

AllDigits(chars) ==
  chars # <<>> /\ \A i \in 1..Len(chars) : chars[i] \in Digits

RECURSIVE TenTo(_)
TenTo(n) == IF n = 0 THEN 1 ELSE 10 * TenTo(n - 1)

NumericLiteral(chars) ==
  IF AllDigits(chars) THEN [isNumber |-> TRUE, value |-> Decimal(chars)]
  ELSE IF \E k \in 1..Len(chars) :
            /\ chars[k] = "e"
            /\ AllDigits(SubSeq(chars, 1, k - 1))
            /\ AllDigits(SubSeq(chars, k + 1, Len(chars)))
  THEN LET k == CHOOSE k \in 1..Len(chars) : chars[k] = "e"
       IN  [isNumber |-> TRUE,
            value |-> Decimal(SubSeq(chars, 1, k - 1))
                        * TenTo(Decimal(SubSeq(chars, k + 1, Len(chars))))]
  ELSE [isNumber |-> FALSE, value |-> 0]

\* the property assignments of the script whose name is vus
VusAssignments(s) ==
  { i \in 1..Len(getPropertyAssignments(s)) :
      getPropertyAssignments(s)[i].name = "vus" }

\* the value text of the first of them
FirstVusValue(s) ==
  getPropertyAssignments(s)[CHOOSE i \in VusAssignments(s) :
                              \A j \in VusAssignments(s) : i <= j].value

\* C10 (VU boundary) as claimed: for a script whose first vus property has
\* value v, ResourceAnalyzer.analyzeScript returns no error when v is a
\* number <= 500, exactly 'VUs limit exceeded: v > 500 (found: vus: v)' when v
\* is a number > 500, and exactly "Invalid VUs value: '<raw>' is not a number
\* (found: vus: <raw>)" when the value text is not numeric.
C10_VUBoundary ==
  ( /\ entry = "ResourceAnalyzer"
    /\ outcome.status = "returned"
    /\ ScriptLength(script) <= maxScriptSize
    /\ VusAssignments(script) # {} )
    => LET raw == FirstVusValue(script)
           v == NumericLiteral(raw)
       IN  outcome.result.errors =
             IF ~v.isNumber
             THEN << "Invalid VUs value: '" \o Str(raw)
                       \o "' is not a number (found: vus: " \o Str(raw) \o ")" >>
             ELSE IF v.value > 500
             THEN << "VUs limit exceeded: " \o ToString(v.value)
                       \o " > 500 (found: vus: " \o ToString(v.value) \o ")" >>
             ELSE <<>>

\* the texts of the name node of a property named vus: an identifier or a
\* quoted string
VusKeys == {"vus", "'vus'"}

\* the properties of the script that declare a number of virtual users above
\* the ceiling
ExcessiveVus(s) ==
  { i \in 1..Len(getPropertyAssignments(s)) :
      LET p == getPropertyAssignments(s)[i]
      IN  /\ p.name \in VusKeys
          /\ NumericLiteral(p.value).isNumber
          /\ NumericLiteral(p.value).value > maxVUs }

\* C11 (no bypass of the VU ceiling): no script for which
\* ResourceAnalyzer.analyzeScript returns valid=true declares a vus property
\* whose numeric value exceeds maxVUs, whatever the form of the key, the form
\* of the numeric value, or the position of the property among other vus
\* properties.
C11_NoBypass ==
  ( /\ entry = "ResourceAnalyzer"
    /\ outcome.status = "returned"
    /\ outcome.result.valid )
    => ExcessiveVus(script) = {}

\* the class of a module specifier: allowed ('k6', or starting with 'k6/',
\* './' or '../'), else forbidden (a member of the denylist), else unknown
ImportClass(spec) ==
  IF spec = <<"k6">> \/ (Len(spec) >= 2 /\ spec[1] \in {"k6", ".", ".."})
  THEN "allowed"
  ELSE IF JoinSlash(spec) \in FORBIDDEN_MODULES THEN "forbidden"
  ELSE "unknown"

\* the errors the import declarations call for, in document order
RECURSIVE ImportErrors(_)
ImportErrors(imports) ==
  IF imports = <<>> THEN <<>>
  ELSE LET name == JoinSlash(Head(imports).spec)
           class == ImportClass(Head(imports).spec)
       IN  (CASE class = "allowed" -> <<>>
              [] class = "forbidden" -> <<"Forbidden Node.js module: " \o name>>
              [] class = "unknown" -> <<"Unknown/disallowed import: " \o name>>)
             \o ImportErrors(Tail(imports))

\* C12 (import classification): ImportAnalyzer.analyzeScript puts every import
\* declaration in exactly one class: an allowed one sets hasK6Imports, and
\* hasProtocolImports iff its specifier is exactly k6/http, k6/ws or
\* k6/net/grpc, and gives no error; a forbidden one gives 'Forbidden Node.js
\* module: <name>'; any other gives 'Unknown/disallowed import: <name>'.  A
\* relative import never sets the protocol flag.
C12_ImportClassification ==
  ( /\ entry = "ImportAnalyzer"
    /\ outcome.status = "returned"
    /\ ~createSourceFileThrows(script) )
    => LET imports == getImportDeclarations(script)
           specs == { imports[i].spec : i \in 1..Len(imports) }
       IN  /\ outcome.result.errors = ImportErrors(imports)
           /\ outcome.result.hasK6Imports
                = (\E n \in specs : ImportClass(n) = "allowed")
           /\ outcome.result.hasProtocolImports
                = (\E n \in specs :
                     JoinSlash(n) \in {"k6/http", "k6/ws", "k6/net/grpc"})
           /\ (\A n \in specs : n[1] \in {".", ".."})
                => ~outcome.result.hasProtocolImports

\* a relative import and a near miss of the denylist: K6 flag, no protocol
\* flag, one error
C12_Witness ==
  /\ entry = "ImportAnalyzer"
  /\ outcome.status = "returned"
  /\ Len(getImportDeclarations(script)) = 2
  /\ getImportDeclarations(script)[1].spec = <<"..", "config.js">>
  /\ getImportDeclarations(script)[2].spec = <<"fs", "promises">>
  /\ outcome.result.hasK6Imports
  /\ ~outcome.result.hasProtocolImports
  /\ outcome.result.errors = <<"Unknown/disallowed import: fs/promises">>

\* the script has an export assignment whose expression is a function
\* expression, or a top-level function declaration with the export modifier
ExportsFunction(s) ==
  \E i \in 1..Len(s.items) :
    \/ s.items[i].kind = "ExportAssignment"
         /\ s.items[i].expression = "FunctionExpression"
    \/ s.items[i].kind = "FunctionDeclaration" /\ s.items[i].exported

C14_NeverRaises ==
  entry = "validateScript" =>
    /\ outcome.status # "raised"
    /\ pc \notin {"idle", "sa_test", "sa_match"} => ENABLED Step
    /\ pc \in {"sa_test", "sa_match"} =>
         /\ cursor[1] \in 1..Len(SecurityPatternType)
         /\ cursor[2] \in 1..Len(compiledPatterns[patternType])
    /\ pc = "idle" =>
         /\ outcome.status = "returned"
         /\ exception.raised =>
              outcome.response = [valid |-> FALSE,
                                  errors |-> <<exception.message>>,
                                  warnings |-> <<>>,
                                  message |-> "Validation error"]

\* ResourceAnalyzer threw inside validateScript, which resolved all the same
C14_Witness ==
  /\ entry = "validateScript"
  /\ pc = "idle"
  /\ exception.raised
  /\ invoked = <<"ImportAnalyzer", "SecurityAnalyzer", "ResourceAnalyzer">>
  /\ outcome.response.message = "Validation error"
  /\ outcome.response.errors = <<"Maximum call stack size exceeded">>

\* C15 (every analyzer is total): ImportAnalyzer.analyzeScript,
\* SecurityAnalyzer.analyzeScript and ResourceAnalyzer.analyzeScript each
\* return a verdict for every input, and never let an exception raised while
\* parsing or inspecting the syntax tree escape.
C15_AnalyzersTotal ==
  ( /\ entry \in {"ImportAnalyzer", "SecurityAnalyzer", "ResourceAnalyzer"}
    /\ pc = "idle" )
    => outcome.status = "returned"

\* C16 (tree release on every exit path): a source file exists only while the
\* call that created it is between createSourceFile and the end of its try
\* block; when ImportAnalyzer.analyzeScript or ResourceAnalyzer.analyzeScript
\* has finished, by return or by an exception raised after the source file was
\* created, the file has been deleted, and none is live when a call starts.
C16_TreeRelease ==
  /\ "ImportAnalyzer" \in sourceFiles => pc = "ia_walk"
  /\ "ResourceAnalyzer" \in sourceFiles => pc = "ra_walk"
  /\ pc \in {"idle", "ia_return", "ra_return", "ra_raise", "ia_parse", "ra_size"}
       => sourceFiles = {}

\* the walk of the tree raised in the second call, and the tree is gone
C16_Witness ==
  /\ calls = 2
  /\ pc = "ra_raise"
  /\ getDescendantsThrows(script)
  /\ exception.raised
  /\ sourceFiles = {}

\* the one error of a script longer than maxScriptSize
OversizeError(s) ==
  "Script size exceeds maximum allowed length: " \o ToString(ScriptLength(s))
    \o " > 51200 bytes"

\* C17 (oversize early return): on a script longer than maxScriptSize,
\* ResourceAnalyzer.analyzeScript goes from the size check straight to its
\* return, creating no source file and checking no vus property, and its
\* result holds exactly one error, the size error.
C17_OversizeEarlyReturn ==
  /\ [][ (pc = "ra_size" /\ ScriptLength(script) > maxScriptSize)
           => /\ pc' = "ra_return"
              /\ sourceFiles' = {}
              /\ resource' = [valid |-> FALSE,
                              errors |-> <<OversizeError(script)>>] ]_vars
  /\ []( ( /\ entry = "ResourceAnalyzer"
           /\ pc = "idle"
           /\ ScriptLength(script) > maxScriptSize )
           => /\ outcome.status = "returned"
              /\ outcome.result = [valid |-> FALSE,
                                   errors |-> <<OversizeError(script)>>] )

\* an oversize script that declares vus: 501 gets the size error only
C17_Witness ==
  /\ entry = "ResourceAnalyzer"
  /\ outcome.status = "returned"
  /\ ScriptLength(script) = 51201
  /\ \E i \in 1..Len(getPropertyAssignments(script)) :
       getPropertyAssignments(script)[i].name = "vus"
         /\ getPropertyAssignments(script)[i].value = <<"5", "0", "1">>
  /\ outcome.result.errors =
       << "Script size exceeds maximum allowed length: 51201 > 51200 bytes" >>

\* the script cut after its first property named vus
UpToFirstVus(s) ==
  LET first == CHOOSE i \in VusAssignments(s) : \A j \in VusAssignments(s) : i <= j
  IN  SubSeq(getPropertyAssignments(s), 1, first)

\* the errors of the list that are VU errors
VuErrors(errs) ==
  { i \in 1..Len(errs) :
      \E p \in VusProperties :
        errs[i] \in { InvalidVUsError(p.value),
                      VUsLimitError(parseInt(p.value).value) } }

\* C18 (first vus only): ResourceAnalyzer examines only the first property
\* assignment named vus in document order: its result is the result for the
\* script cut after that property, whatever later vus properties contain,
\* and holds at most one VU error.
C18_FirstVusOnly ==
  ( /\ entry = "ResourceAnalyzer"
    /\ outcome.status = "returned"
    /\ ~ExceedsMaxScriptSize(script) )
    => /\ Cardinality(VuErrors(outcome.result.errors)) <= 1
       /\ Len(outcome.result.errors) <= 1
       /\ VusAssignments(script) = {} => outcome.result = NewAnalysisResult
       /\ VusAssignments(script) # {} =>
            outcome.result
              = CheckVusValue(NewAnalysisResult,
                              UpToFirstVus(script)[Len(UpToFirstVus(script))].value)

\* vus: 100 first and vus: 501 after it: the call finds nothing to report
C18_Witness ==
  /\ entry = "ResourceAnalyzer"
  /\ outcome.status = "returned"
  /\ Len(getPropertyAssignments(script)) = 2
  /\ getPropertyAssignments(script)[1] = PropertyAssignment("vus", <<"1", "0", "0">>)
  /\ getPropertyAssignments(script)[2] = PropertyAssignment("vus", <<"5", "0", "1">>)
  /\ outcome.result = [valid |-> TRUE, errors |-> <<>>]

\* C19 (parse failure in ImportAnalyzer): when createSourceFile raises in
\* ImportAnalyzer.analyzeScript, the call returns, nothing is thrown to the
\* caller, and the result is valid=false with the exception message as its
\* only error and hasK6Imports, hasProtocolImports and hasExportedFunction all
\* false.
C19_ParseFailureReported ==
  ( /\ entry = "ImportAnalyzer"
    /\ createSourceFileThrows(script) )
    => /\ ~exception.raised
       /\ outcome.status # "raised"
       /\ pc = "idle" =>
            /\ outcome.status = "returned"
            /\ outcome.result = [valid |-> FALSE,
                                 errors |-> <<"Maximum call stack size exceeded">>,
                                 hasK6Imports |-> FALSE,
                                 hasProtocolImports |-> FALSE,
                                 hasExportedFunction |-> FALSE]

\* the parser gave up on a script that has an import and an exported function
C19_Witness ==
  /\ entry = "ImportAnalyzer"
  /\ pc = "idle"
  /\ createSourceFileThrows(script)
  /\ getImportDeclarations(script) # <<>>
  /\ outcome.status = "returned"
  /\ ~outcome.result.valid
  /\ Len(outcome.result.errors) = 1

\* C20 (patterns compiled once): every pattern is compiled at module
\* initialization and never after; no step of any call adds, removes or
\* replaces an entry of the compiled-pattern table, which is the table of the
\* initialization after any number of calls.
C20_CompiledOnce ==
  /\ [][ compiledPatterns' = compiledPatterns
           /\ compilations' = compilations ]_vars
  /\ []( /\ compiledPatterns = CompiledAtInitialization
         /\ compilations = Cardinality(AllPatterns)
         /\ DOMAIN lastIndex
              = UNION { { compiledPatterns[t][i] :
                            i \in 1..Len(compiledPatterns[t]) } :
                        t \in DOMAIN compiledPatterns } )

\* a second call of SecurityAnalyzer.analyzeScript has found a violation with
\* the patterns of the initialization
C20_Witness ==
  /\ calls = 2
  /\ entry = "SecurityAnalyzer"
  /\ pc = "idle"
  /\ outcome.status = "returned"
  /\ outcome.result.errors # <<>>
  /\ compilations = Cardinality(AllPatterns)
  /\ compiledPatterns = CompiledAtInitialization

\* C21 (linear-time engine, always): in every environment in which the module
\* loads, the patterns matched against the script are RE2 patterns; the text
\* of a script is never matched by the backtracking engine.
C21_LinearTimeEngine ==
  pc \in {"sa_test", "sa_match"} => RE2Ctor = "RE2"


\* the errors checkPatterns adds for the patterns k.. of one category when each
\* pattern is matched from the beginning of the script
RECURSIVE CategoryAlone(_, _, _, _, _)
CategoryAlone(type, k, s, errs, found) ==
  IF k > Len(SECURITY_PATTERNS(type)) THEN errs
  ELSE LET m == exec(SECURITY_PATTERNS(type)[k], s, 0)
           fresh == m.found /\ m.match \notin found
       IN  CategoryAlone(type, k + 1, s,
                         IF fresh
                         THEN Append(errs, ViolationError(type, m.match))
                         ELSE errs,
                         IF fresh THEN found \cup {m.match} ELSE found)

\* the security errors of a script analysed in a process that does nothing else
RECURSIVE SecurityAlone(_, _)
SecurityAlone(c, s) ==
  IF c > Len(SecurityPatternType) THEN <<>>
  ELSE CategoryAlone(SecurityPatternType[c], 1, s, <<>>, {})
         \o SecurityAlone(c + 1, s)

\* the resource errors of a script analysed in a process that does nothing else
ResourceAlone(s) ==
  IF ExceedsMaxScriptSize(s) THEN <<ResourceSizeError(s)>>
  ELSE CheckVus(getPropertyAssignments(s), NewAnalysisResult).errors

\* the verdict of validateScript on s in a process that does nothing else
VerdictAlone(s) ==
  LET ia == IF createSourceFileThrows(s)
            THEN ImportFailure(NewScriptAnalysisResult, ParseErrorMessage)
            ELSE ImportAnalysis(s)
      structural == StructuralErrors(SizeCheck(s), ia)
  IN  IF StructuralGate(structural)
      THEN error(structural, "Script validation failed")
      ELSE IF ~ExceedsMaxScriptSize(s)
              /\ (createSourceFileThrows(s) \/ getDescendantsThrows(s))
      THEN error(<<ParseErrorMessage>>, "Validation error")
      ELSE FinalResponse(structural \o SecurityAlone(1, s) \o ResourceAlone(s))

\* C22 (isolation): at most one validateScript call runs at a time and the
\* state it works on is its own request's; between calls no pattern holds a
\* match position and no syntax tree is left, so a call starts from the state
\* of a fresh process; a request that arrives while a call runs changes
\* nothing of the call; every response is the verdict validateScript gives
\* the request's script when run alone.
C22_Isolation ==
  /\ Cardinality({ i \in 1..Len(requests) : requests[i].state = "running" }) <= 1
  /\ \A i \in 1..Len(requests) :
       /\ requests[i].state = "running" /\ pc # "idle"
            => script = requests[i].script
       /\ requests[i].state = "responded"
            => requests[i].body = VerdictAlone(requests[i].script)
  /\ pc = "idle" =>
       /\ \A p \in AllPatterns : lastIndex[p] = 0
       /\ sourceFiles = {}

\* two requests answered, the first rejected for its eval call, the second,
\* with a clean script, accepted
C22_Witness ==
  /\ Len(requests) = 2
  /\ requests[1].state = "responded"
  /\ requests[2].state = "responded"
  /\ requests[1].script = scriptWithSecurityViolation
  /\ ~requests[1].body.valid
  /\ requests[2].script = validK6Script
  /\ requests[2].body.valid


\* the specifiers of the script's import declarations
ImportedModules(s) ==
  { getImportDeclarations(s)[i].spec : i \in 1..Len(getImportDeclarations(s)) }

\* C23 (required import): every script that validateScript accepts imports
\* 'k6/http'.
C23_HttpImported ==
  ( /\ entry = "validateScript"
    /\ outcome.status = "returned"
    /\ outcome.response.valid )
    => <<"k6", "http">> \in ImportedModules(script)


\* an exception reaches validateScript while it validates s: the structural
\* phase passes and ResourceAnalyzer's parser raises
ValidationRaises(s) ==
  /\ ~createSourceFileThrows(s)
  /\ ~StructuralGate(StructuralErrors(SizeCheck(s), ImportAnalysis(s)))
  /\ ~ExceedsMaxScriptSize(s)
  /\ getDescendantsThrows(s)

\* C24 (status mapping): the response to a request that passed request
\* validation has status 500 when an internal failure occurred during its
\* validation, else 200 when the verdict is valid and 400 when it is invalid.
C24_StatusMapping ==
  \A i \in 1..Len(requests) :
    requests[i].state = "responded"
      => requests[i].status =
           IF ValidationRaises(requests[i].script) THEN 500
           ELSE IF requests[i].body.valid THEN 200 ELSE 400


\* the errors of the structural phase, from the script's text: the size error,
\* the import errors in declaration order, then the three missing-part
\* messages
StructuralPhaseErrors(s) ==
  (IF ScriptLength(s) > maxFileSize THEN <<ScriptSizeError(s)>> ELSE <<>>)
    \o ImportErrors(getImportDeclarations(s))
    \o (IF \E n \in ImportedModules(s) : ImportClass(n) = "allowed"
        THEN <<>> ELSE <<MissingK6Import>>)
    \o (IF \E n \in ImportedModules(s) : JoinSlash(n) \in K6_PROTOCOL_MODULES
        THEN <<>> ELSE <<MissingProtocolImport>>)
    \o (IF ExportsFunction(s) THEN <<>> ELSE <<MissingExportedFunction>>)

Range(seq) == { seq[i] : i \in 1..Len(seq) }

\* C26 (missing K6 import): validateScript reports 'Script must contain at
\* least one K6 import' for every script none of whose imports is 'k6' or
\* starts with 'k6/'.
C26_MissingK6Reported ==
  ( /\ entry = "validateScript"
    /\ pc = "idle"
    /\ \A n \in ImportedModules(script) : n[1] # "k6" )
    => MissingK6Import \in Range(outcome.response.errors)


\* C27 (regex state): outside the lines between a pattern's test() and the
\* reset that follows its exec(), in particular before and after every
\* analyzeScript call, every compiled pattern has lastIndex 0; between them
\* only the pattern under test holds a position, the end of its leftmost
\* match, so test() started at the beginning of the text and the exec() that
\* follows the reset returns the leftmost match.
C27_RegexStateClean ==
  /\ pc # "sa_match" => \A p \in AllPatterns : lastIndex[p] = 0
  /\ pc = "sa_match" =>
       /\ \A p \in AllPatterns \ {re2Pattern} : lastIndex[p] = 0
       /\ exec(re2Pattern, script, 0).found
       /\ lastIndex[re2Pattern] = exec(re2Pattern, script, 0).lastIndex

\* the script with the eval call was validated and rejected; a second call on
\* it is about to test the same pattern, whose lastIndex is 0 again
C27_Witness ==
  /\ Len(history) = 1
  /\ history[1].script = scriptWithSecurityViolation
  /\ ~history[1].response.valid
  /\ calls = 2
  /\ script = scriptWithSecurityViolation
  /\ pc = "sa_test"
  /\ cursor = <<1, 1>>
  /\ lastIndex[re2Pattern] = 0


\* C28 (flags): in every result of ImportAnalyzer.analyzeScript
\* hasProtocolImports implies hasK6Imports, and every validateScript response
\* that lists the missing-K6-import error lists the missing-protocol-module
\* error too.
C28_ProtocolImpliesK6 ==
  /\ analysis.hasProtocolImports => analysis.hasK6Imports
  /\ (entry = "ImportAnalyzer" /\ outcome.status = "returned")
       => (outcome.result.hasProtocolImports => outcome.result.hasK6Imports)
  /\ (entry = "validateScript" /\ outcome.status = "returned")
       => ( MissingK6Import \in Range(outcome.response.errors)
              => MissingProtocolImport \in Range(outcome.response.errors) )

\* ImportAnalyzer has returned both flags for a script whose only import is
\* the protocol module k6/ws
C28_Witness ==
  /\ entry = "ImportAnalyzer"
  /\ outcome.status = "returned"
  /\ ImportedModules(script) = {<<"k6", "ws">>}
  /\ outcome.result.hasProtocolImports
  /\ outcome.result.hasK6Imports


\* C29 (syntax trees): during a validateScript call at most one syntax tree
\* exists at any moment and at most two are created; none exists when
\* ResourceAnalyzer is about to create its own, so ImportAnalyzer's has been
\* deleted by then; none exists while SecurityAnalyzer runs, nor when the
\* call has returned.
C29_OneTreeAtATime ==
  entry = "validateScript" =>
    /\ Cardinality(sourceFiles) <= 1
    /\ created <= 2
    /\ pc \in {"ra_size", "ra_parse"} => sourceFiles = {}
    /\ "ResourceAnalyzer" \in sourceFiles => "ImportAnalyzer" \notin sourceFiles
    /\ pc \in {"sa_test", "sa_match", "sa_return"} => sourceFiles = {}
    /\ pc = "idle" => sourceFiles = {}

\* ResourceAnalyzer walks the second tree of the call, the only one there is
C29_Witness ==
  /\ entry = "validateScript"
  /\ pc = "ra_walk"
  /\ created = 2
  /\ sourceFiles = {"ResourceAnalyzer"}


\* C30 (size ceilings): maxFileSize and maxScriptSize are equal; within
\* validateScript ResourceAnalyzer runs only on scripts no longer than
\* maxScriptSize, and no validateScript response lists ResourceAnalyzer's
\* 'Script size exceeds maximum allowed length' error.
C30_CeilingsAgree ==
  /\ maxFileSize = maxScriptSize
  /\ entry = "validateScript" =>
       /\ "ResourceAnalyzer" \in Range(invoked)
            => ScriptLength(script) <= maxScriptSize
       /\ ResourceSizeError(script) \notin Range(resource.errors)
       /\ outcome.status = "returned"
            => ResourceSizeError(script) \notin Range(outcome.response.errors)

\* ResourceAnalyzer has run on a script of exactly maxScriptSize characters
\* and validateScript has accepted it
C30_Witness ==
  /\ entry = "validateScript"
  /\ outcome.status = "returned"
  /\ ScriptLength(script) = maxScriptSize
  /\ "ResourceAnalyzer" \in Range(invoked)
  /\ outcome.response.valid

=============================================================================
